---------------------------- MODULE Spec2Model ----------------------------
(***************************************************************************)
(* Geocoding of polling-station records (estrategico/scripts).             *)
(*                                                                         *)
(*   preparar_casillas_para_geocodificar - copia.py  builds the skeleton   *)
(*       features (DOMICILIO_LIMPIO, DOMICILIO_CORTO) that v1 reads;       *)
(*   geocodificar_casillas.py          (v1) one query per record, cached;  *)
(*   geocodificar_casillas_gto_v2.py   (v2) an ordered list of candidate   *)
(*       queries per record, tried until one yields a coordinate.          *)
(*                                                                         *)
(* Text is modelled by TLA+ strings, character by character: the Python    *)
(* string methods used by the scripts (upper, title, find, replace, split, *)
(* strip) and the three regular expressions are operators below.           *)
(***************************************************************************)
EXTENDS Integers, Sequences, FiniteSets, TLC

VARIABLES
    variant,    \* "v1" | "v2": which script's main() runs; "none" in the function specs
    raw,        \* the input records of the run (sequence of raw casilla records)
    pc,         \* position of main(): "record" | "candidate" | "done"
    i,          \* index of the record being processed (enumerate(..., start=1))
    k,          \* v2: index in `queries` of the next candidate of record i
    queries,    \* v2: armar_queries_geocod(...) of record i
    local,      \* v2: the loop locals geometry / geocod_status / geocod_query
    cache,      \* v1: the dict cache (query -> loc), as a function
    features,   \* the feature list (v1: mutated in place; v2: appended to)
    calls,      \* log of the external lookups geocode(q): <<[rec, q, out]>>
    fn,         \* function specs: the function applied ("" before the call)
    arg,        \* function specs: its argument(s)
    res         \* function specs: its result

vars == <<variant, raw, pc, i, k, queries, local, cache, features, calls, fn, arg, res>>

-----------------------------------------------------------------------------
(* Bounds of the model *)

\* records in one run
MaxRecords == 2
\* pieces an address is assembled from in the function specs
MaxChunks == 3

-----------------------------------------------------------------------------
(* Python str, character by character *)

\* Python's None where the code holds a str or None: a string no text operation
\* of the scripts produces
None == "<None>"

\* Python's None where the code holds an object or None (a regex match, a
\* geocoder location, a geometry)
NoneObj == [none |-> TRUE]

Min(S) == CHOOSE x \in S : \A y \in S : x <= y

\* the least element of S, d when S is empty
MinOr(S, d) == IF S = {} THEN d ELSE Min(S)

\* s[a-1:b]: the characters a..b of s (1-based, inclusive), clipped to s like a
\* Python slice
Slice(s, a, b) == SubSeq(s, IF a < 1 THEN 1 ELSE a, IF b > Len(s) THEN Len(s) ELSE b)

\* s[n-1:n]: the n-th character of s, "" beyond its end
Char(s, n) == Slice(s, n, n)

LowerLetters == "abcdefghijklmnopqrstuvwxyzñáéíóúüμ"
UpperLetters == "ABCDEFGHIJKLMNOPQRSTUVWXYZÑÁÉÍÓÚÜΜ"
Digits == {"0", "1", "2", "3", "4", "5", "6", "7", "8", "9"}

\* the position of character c in s, 0 when it does not occur
IndexOf(s, c) == MinOr({n \in 1..Len(s) : Char(s, n) = c}, 0)

IsLower(c) == IndexOf(LowerLetters, c) # 0
IsUpper(c) == IndexOf(UpperLetters, c) # 0
IsCased(c) == IsLower(c) \/ IsUpper(c)
IsSpace(c) == c \in {" ", "\t", "\n"}

\* c with the characters of `from` replaced by those of `to` at the same position
MapChar(c, from, to) == IF IndexOf(from, c) # 0 THEN Char(to, IndexOf(from, c)) ELSE c

UpperChar(c) == MapChar(c, LowerLetters, UpperLetters)
LowerChar(c) == MapChar(c, UpperLetters, LowerLetters)

RECURSIVE UpperFrom(_, _)
UpperFrom(s, n) ==
    IF n > Len(s) THEN "" ELSE UpperChar(Char(s, n)) \o UpperFrom(s, n + 1)

\* str.upper()
upper(s) == UpperFrom(s, 1)

RECURSIVE TitleFrom(_, _, _)
TitleFrom(s, n, prevCased) ==
    IF n > Len(s) THEN ""
    ELSE (IF prevCased THEN LowerChar(Char(s, n)) ELSE UpperChar(Char(s, n)))
            \o TitleFrom(s, n + 1, IsCased(Char(s, n)))

\* str.title(): a cased character is upper-cased after an uncased one, else lower-cased
title(s) == TitleFrom(s, 1, FALSE)

\* str.find(pat): the lowest 0-based index of pat in s, or -1
find(s, pat) ==
    MinOr({n \in 0..(Len(s) - Len(pat)) : Slice(s, n + 1, n + Len(pat)) = pat}, -1)

\* pat in s
Contains(s, pat) == find(s, pat) # -1

\* s[:n] and s[n:] (0-based n, 0 <= n <= Len(s))
Prefix(s, n) == Slice(s, 1, n)
Suffix(s, n) == Slice(s, n + 1, Len(s))

RECURSIVE replace(_, _, _)
\* replace, given the index `at` of the first occurrence of old in s (-1: none)
ReplaceAt(s, old, new, at) ==
    IF at = -1 THEN s
    ELSE Prefix(s, at) \o new \o replace(Suffix(s, at + Len(old)), old, new)

\* str.replace(old, new), old non-empty: left to right, non-overlapping
replace(s, old, new) == ReplaceAt(s, old, new, find(s, old))

\* the word read so far, as a list of zero or one word
Word(cur) == IF cur = "" THEN <<>> ELSE <<cur>>

RECURSIVE SplitFrom(_, _, _)
SplitFrom(s, n, cur) ==
    IF n > Len(s) THEN Word(cur)
    ELSE IF IsSpace(Char(s, n)) THEN Word(cur) \o SplitFrom(s, n + 1, "")
    ELSE SplitFrom(s, n + 1, cur \o Char(s, n))

\* str.split(): the words between runs of whitespace
split(s) == SplitFrom(s, 1, "")

RECURSIVE join(_, _)
\* sep.join(parts)
join(sep, parts) ==
    IF parts = <<>> THEN ""
    ELSE IF Len(parts) = 1 THEN parts[1]
    ELSE parts[1] \o sep \o join(sep, Tail(parts))

RECURSIVE LStrip(_, _)
LStrip(s, chars) ==
    IF s # "" /\ Char(s, 1) \in chars THEN LStrip(Suffix(s, 1), chars) ELSE s

RECURSIVE RStrip(_, _)
RStrip(s, chars) ==
    IF s # "" /\ Char(s, Len(s)) \in chars THEN RStrip(Prefix(s, Len(s) - 1), chars) ELSE s

\* str.strip(chars)
strip_chars(s, chars) == RStrip(LStrip(s, chars), chars)

\* str.strip()
strip(s) == strip_chars(s, {" ", "\t", "\n"})

\* `if x:` for a value that is None or a str
Truthy(x) == x # None /\ x # ""

\* x or y, for values that are None or a str
Or(x, y) == IF Truthy(x) THEN x ELSE y

-----------------------------------------------------------------------------
(* geocodificar_casillas_gto_v2.py: text utilities *)

\* unicodedata.normalize("NFD", text) with the characters of category Mn dropped:
\* an accented letter decomposes into its base letter and a combining mark
Accented   == "áéíóúüÁÉÍÓÚÜ"
Unaccented == "aeiouuAEIOUU"

RECURSIVE WithoutMarksFrom(_, _)
WithoutMarksFrom(s, n) ==
    IF n > Len(s) THEN ""
    ELSE MapChar(Char(s, n), Accented, Unaccented) \o WithoutMarksFrom(s, n + 1)

strip_accents_keep_enie(text) ==
    IF text = "" THEN ""
    ELSE LET spaced == join(" ", split(text))
             marked == replace(replace(spaced, "ñ", "__enie_min__"), "Ñ", "__enie_may__")
             without_marks == WithoutMarksFrom(marked, 1)
         IN  replace(replace(without_marks, "__enie_min__", "ñ"), "__enie_may__", "Ñ")

cortes ==
    << " A 50 METROS", " A 100 METROS", " A 200 METROS", " A UN COSTADO",
       " FRENTE A ", " FRENTE AL ", " ENTRE CALLE", " ENTRE LA CALLE",
       " ESQUINA ", " ESQ. ", " ESQ ", " SOBRE LA CARRETERA", " SOBRE CARRETERA",
       " LADO DERECHO", " LADO IZQUIERDO", " A ESPALDAS" >>

\* txt[:idx] for the marker cortes[m]; txt itself when no marker was found (m = 0)
CortarEn(txt, m) == IF m = 0 THEN txt ELSE Prefix(txt, find(txt, cortes[m]))

\* the loop over cortes: cut at the first marker OF THE LIST that occurs, then break
CortarEnMarca(txt) ==
    CortarEn(txt, MinOr({m \in 1..Len(cortes) : find(txt, cortes[m]) # -1}, 0))

\* after the cut: ' SIN NUMERO' and ' S/N' removed, whitespace normalised, and
\* commas and spaces stripped at both ends
Pulir(txt) ==
    strip_chars(join(" ", split(replace(replace(txt, " SIN NUMERO", ""), " S/N", ""))),
                {",", " "})

limpiar_frases_basura(domicilio) ==
    IF ~Truthy(domicilio) THEN "" ELSE Pulir(CortarEnMarca(upper(domicilio)))

\* partes, given loc = (localidad or "").strip()
Partes(domicilio_limpio, loc) ==
    (IF domicilio_limpio # "" THEN <<domicilio_limpio>> ELSE <<>>)
    \o (IF loc # "" /\ ~Contains(upper(domicilio_limpio), upper(loc))
        THEN <<loc>> ELSE <<>>)

construir_domicilio_corto(domicilio_limpio, localidad) ==
    join(", ", Partes(domicilio_limpio, strip(Or(localidad, ""))))

RECURSIVE Unique(_, _)
\* a faulty Unique, which C6 must reject: nothing is removed
UniqueKeepsAll(qs, seen) == qs

\* the seen/unique loop: duplicates dropped, first occurrences kept in order
Unique(qs, seen) ==
    IF qs = <<>> THEN <<>>
    ELSE IF Head(qs) \in seen THEN Unique(Tail(qs), seen)
    ELSE <<Head(qs)>> \o Unique(Tail(qs), seen \cup {Head(qs)})

\* a faulty QueriesRaw, which C7 must reject: the locality goes before the address
QueriesRawLocalityFirst(domicilio_corto, loc, muni) ==
    (IF loc # "" /\ muni # ""
     THEN <<loc \o ", " \o muni \o ", Guanajuato, Mexico">>
     ELSE IF loc # ""
     THEN <<loc \o ", Guanajuato, Mexico">>
     ELSE <<>>)
    \o (IF domicilio_corto # "" /\ muni # ""
        THEN <<domicilio_corto \o ", " \o muni \o ", Guanajuato, Mexico">>
        ELSE IF domicilio_corto # ""
        THEN <<domicilio_corto \o ", Guanajuato, Mexico">>
        ELSE <<>>)
    \o (IF muni # "" THEN <<muni \o ", Guanajuato, Mexico">> ELSE <<>>)
    \o <<"Guanajuato, Mexico">>

\* the list `queries` before normalisation, given loc and muni (both stripped)
QueriesRaw(domicilio_corto, loc, muni) ==
    (IF domicilio_corto # "" /\ muni # ""
     THEN <<domicilio_corto \o ", " \o muni \o ", Guanajuato, Mexico">>
     ELSE IF domicilio_corto # ""
     THEN <<domicilio_corto \o ", Guanajuato, Mexico">>
     ELSE <<>>)
    \o (IF loc # "" /\ muni # ""
        THEN <<loc \o ", " \o muni \o ", Guanajuato, Mexico">>
        ELSE IF loc # ""
        THEN <<loc \o ", Guanajuato, Mexico">>
        ELSE <<>>)
    \o (IF muni # "" THEN <<muni \o ", Guanajuato, Mexico">> ELSE <<>>)
    \o <<"Guanajuato, Mexico">>

\* queries_norm = [strip_accents_keep_enie(q) for q in queries]
Normalizadas(qs) == [n \in 1..Len(qs) |-> strip_accents_keep_enie(qs[n])]

armar_queries_geocod(domicilio_corto, localidad, municipio) ==
    Unique(Normalizadas(QueriesRaw(domicilio_corto, strip(Or(localidad, "")),
                                   strip(Or(municipio, "")))), {})

-----------------------------------------------------------------------------
(* preparar_casillas_para_geocodificar - copia.py: the fields v1 reads *)

RECURSIVE CollapseWs(_, _)
\* re.sub(r"\s+", " ", txt): every run of whitespace becomes one space
CollapseWs(s, n) ==
    IF n > Len(s) THEN ""
    ELSE IF IsSpace(Char(s, n))
    THEN (IF n > 1 /\ IsSpace(Char(s, n - 1)) THEN "" ELSE " ") \o CollapseWs(s, n + 1)
    ELSE Char(s, n) \o CollapseWs(s, n + 1)

\* the position after the whitespace run that starts at n (greedy \s*)
WsEnd(s, n) == Min({m \in n..(Len(s) + 1) : m > Len(s) \/ ~IsSpace(Char(s, m))})

\* the position after the run of non-commas that starts at n (greedy [^,]*)
RunEnd(s, n) == Min({m \in n..(Len(s) + 1) : m > Len(s) \/ Char(s, m) = ","})

\* txt without "DOMICILIO\s*:\s*", given the position `colon` after DOMICILIO\s*
SinEtiquetaEn(txt, colon) ==
    IF Char(txt, colon) = ":" THEN Suffix(txt, WsEnd(txt, colon + 1) - 1) ELSE txt

\* re.sub(r"^DOMICILIO\s*:\s*", "", txt)
SinEtiqueta(txt) ==
    IF Prefix(txt, 9) = "DOMICILIO" THEN SinEtiquetaEn(txt, WsEnd(txt, 10)) ELSE txt

reemplazos ==
    << <<" NO. ", " ">>, <<" NUM. ", " ">>, <<" NUMERO ", " ">>, <<" NÚM. ", " ">>,
       <<" S/N", " SN">>, <<"C/", "CALLE ">>, <<" C. ", " CALLE ">> >>

RECURSIVE Reemplazar(_, _)
\* for k, v in reemplazos.items(): txt = txt.replace(k, v)
Reemplazar(txt, n) ==
    IF n > Len(reemplazos) THEN txt
    ELSE Reemplazar(replace(txt, reemplazos[n][1], reemplazos[n][2]), n + 1)

limpiar_domicilio(rawtext) ==
    IF rawtext = "" THEN ""
    ELSE strip_chars(Reemplazar(CollapseWs(SinEtiqueta(strip(upper(rawtext))), 1), 1),
                     {",", ".", ";", "-", " "})

marcadores ==
    << " COLONIA ", " COL. ", " FRACCIONAMIENTO ", " FRACC. ", " BARRIO ",
       " ZONA ", " COMUNIDAD ", " COL ", " FRACC " >>

\* corte_pos: the least index at which a marker occurs in base, len(base) if none
CortePos(base) ==
    Min(({find(base, marcadores[n]) : n \in 1..Len(marcadores)} \ {-1}) \cup {Len(base)})

\* base[:corte_pos], stripped
CortoDe(base) ==
    strip_chars(strip(Prefix(base, CortePos(base))), {",", ".", ";", "-", " "})

domicilio_corto(txt) == IF txt = "" THEN "" ELSE CortoDe(" " \o txt \o " ")

-----------------------------------------------------------------------------
(* geocodificar_casillas.py (v1): the query of a record *)

AllDigits(s) == \A n \in 1..Len(s) : Char(s, n) \in Digits

\* Campo, given w = the end of the whitespace at n and e = the next comma
CampoEn(s, n, w, e) ==
    IF e > Len(s) \/ e = n THEN NoneObj
    ELSE [grp |-> Slice(s, IF w < e THEN w ELSE e - 1, e - 1), coma |-> e]

\* \s*([^,]+), from position n: the captured group and the position of the comma
\* that ends it, or NoneObj. \s* is greedy and gives back one character when the
\* piece up to the comma is whitespace only.
Campo(s, n) == CampoEn(s, n, WsEnd(s, n), RunEnd(s, n))

\* Cinco, given a = the end of the whitespace at n
CincoEn(s, a) ==
    IF a + 5 <= Len(s) /\ AllDigits(Slice(s, a, a + 4)) /\ Char(s, a + 5) = ","
    THEN [grp |-> Slice(s, a, a + 4), coma |-> a + 5]
    ELSE NoneObj

\* \s*(\d{5}), from position n: the five digits and the position of the comma
Cinco(s, n) == CincoEn(s, WsEnd(s, n))

\* word at position c
Esta(s, c, word) == Slice(s, c, c + Len(word) - 1) = word

\* \s*<word> from position n
Sigue(s, n, word) == Esta(s, WsEnd(s, n), word)

\* the match, given the groups cp = (\d{5}) and mp = ([^,]+)
CpMpioCon(txt, cp, mp) ==
    IF mp = NoneObj THEN NoneObj
    ELSE IF Sigue(txt, mp.coma + 1, "GUANAJUATO")
    THEN [cp |-> cp.grp, mpio |-> mp.grp]
    ELSE NoneObj

\* the match, given the group cp = (\d{5})
CpMpioTras(txt, cp) ==
    IF cp = NoneObj THEN NoneObj ELSE CpMpioCon(txt, cp, Campo(txt, cp.coma + 1))

\* re.search(r",\s*(\d{5}),\s*([^,]+),\s*GUANAJUATO", txt): the match that starts
\* at the comma of position n, or NoneObj
MatchCpMpio(txt, n) ==
    IF Char(txt, n) # "," THEN NoneObj ELSE CpMpioTras(txt, Cinco(txt, n + 1))

\* (cp, mpio) of the match m
CpMpioDe(m) == [cp |-> m.cp, mpio |-> title(m.mpio)]

\* the leftmost match in txt: (cp, mpio), or (None, None)
BuscarCpMpio(txt, at) ==
    IF at = 0 THEN [cp |-> None, mpio |-> None] ELSE CpMpioDe(MatchCpMpio(txt, at))

\* txt = dom_full.upper()
CpMpioEn(txt) ==
    BuscarCpMpio(txt, MinOr({n \in 1..Len(txt) : MatchCpMpio(txt, n) # NoneObj}, 0))

\* returns (cp, mpio), both None when the pattern is not found
extraer_cp_y_mpio(dom_full) ==
    IF ~Truthy(dom_full) THEN [cp |-> None, mpio |-> None] ELSE CpMpioEn(upper(dom_full))

LOCALIDAD_CORR ==
    << <<"ESTACIÓN JOAQUÓN", "Estación Joaquín">>,
       <<"SAN JOS DE GONZΜLEZ", "San José de González">>,
       <<"ALTO DE ALCOCER", "Alto de Alcocer">> >>

\* the value of entry n of the table, loc when there is none (n = 0)
Corregida(loc, n) == IF n = 0 THEN loc ELSE LOCALIDAD_CORR[n][2]

\* LOCALIDAD_CORR.get(loc, loc)
Corregir(loc) ==
    Corregida(loc, MinOr({n \in 1..Len(LOCALIDAD_CORR) : LOCALIDAD_CORR[n][1] = loc}, 0))

\* group 1, given a = the position after LOCALIDAD, w = the end of the whitespace
\* at a and e = the next comma from w
LocalidadEn(txt, a, w, e) ==
    IF w = a THEN NoneObj
    ELSE IF e > w THEN [grp |-> Slice(txt, w, e - 1)]
    ELSE IF w - a >= 2 THEN [grp |-> Char(txt, w - 1)]
    ELSE NoneObj

\* re.search(r"LOCALIDAD\s+([^,]+)", txt): group 1 of the match that starts at n
MatchLocalidad(txt, n) ==
    IF ~Esta(txt, n, "LOCALIDAD") THEN NoneObj
    ELSE LocalidadEn(txt, n + 9, WsEnd(txt, n + 9), RunEnd(txt, WsEnd(txt, n + 9)))

\* the match, given the groups lo = ([^,]+) and cp = (\d{5})
AntesDeCpCon(txt, lo, cp) ==
    IF cp = NoneObj THEN NoneObj
    ELSE IF Sigue(txt, cp.coma + 1, "ABASOLO") THEN [grp |-> lo.grp]
    ELSE NoneObj

\* the match, given the group lo = ([^,]+)
AntesDeCpTras(txt, lo) ==
    IF lo = NoneObj THEN NoneObj ELSE AntesDeCpCon(txt, lo, Cinco(txt, lo.coma + 1))

\* re.search(r",\s*([^,]+),\s*(\d{5}),\s*ABASOLO", txt): group 1 of the match at n
MatchAntesDeCp(txt, n) ==
    IF Char(txt, n) # "," THEN NoneObj ELSE AntesDeCpTras(txt, Campo(txt, n + 1))

\* LOCALIDAD_CORR.get(loc, loc).title() for loc = m.group(1).strip().upper()
LocalidadDe(m) == title(Corregir(upper(strip(m.grp))))

\* the locality, given the leftmost positions m1 and m2 of the two patterns (0: none)
BuscarLocalidad(txt, m1, m2) ==
    IF m1 # 0 THEN LocalidadDe(MatchLocalidad(txt, m1))
    ELSE IF m2 = 0 THEN None
    ELSE LocalidadDe(MatchAntesDeCp(txt, m2))

\* txt = dom_full.upper()
LocalidadDeTexto(txt) ==
    BuscarLocalidad(txt,
                    MinOr({n \in 1..Len(txt) : MatchLocalidad(txt, n) # NoneObj}, 0),
                    MinOr({n \in 1..Len(txt) : MatchAntesDeCp(txt, n) # NoneObj}, 0))

\* returns the locality, title-cased, or None
extraer_localidad(dom_full) ==
    IF ~Truthy(dom_full) THEN None ELSE LocalidadDeTexto(upper(dom_full))

\* the query, given the three address fields, mpio and localidad
QueryDe(dom_corto, dom_limpio, dom_full, mpio, localidad) ==
    IF Truthy(localidad) /\ Truthy(mpio)
    THEN localidad \o ", " \o mpio \o ", Guanajuato, México"
    ELSE IF Truthy(mpio) THEN mpio \o ", Guanajuato, México"
    ELSE Or(dom_corto, Or(dom_limpio, dom_full)) \o ", Guanajuato, México"

\* build_query, given dom_corto, dom_limpio and dom_full (each `props.get(..) or ""`)
BuildQuery(dom_corto, dom_limpio, dom_full) ==
    IF dom_corto = "" /\ dom_limpio = "" /\ dom_full = "" THEN None
    ELSE QueryDe(dom_corto, dom_limpio, dom_full,
                 extraer_cp_y_mpio(dom_full).mpio, extraer_localidad(dom_full))

\* props.get(key)
Get(props, key) == IF key \in DOMAIN props THEN props[key] ELSE None

\* props is the properties dict of a feature; returns the query, or None
build_query(props) ==
    BuildQuery(Or(Get(props, "DOMICILIO_CORTO"), ""),
               Or(Get(props, "DOMICILIO_LIMPIO"), ""),
               Or(Get(props, "DOMICILIO"), ""))

-----------------------------------------------------------------------------
(* The inputs of a run *)

\* The casilla records the runs draw from. v2 reads SECCION, CASILLA, LOCALIDAD
\* and DOMICILIO of a CSV row; preparar reads SECCION, CASILLA, TIPO and DOMICILIO
\* of a casilla and writes the feature v1 reads.
RawRecords ==
    { [SECCION |-> "0002", CASILLA |-> "B1", TIPO |-> "B", LOCALIDAD |-> "",
       DOMICILIO |-> ""],
      [SECCION |-> " 0001", CASILLA |-> "B1", TIPO |-> "B", LOCALIDAD |-> "Centro",
       DOMICILIO |-> "Hidalgo 12 ESQ. Juárez"],
      [SECCION |-> "0001", CASILLA |-> "C1", TIPO |-> "C", LOCALIDAD |-> "Centro",
       DOMICILIO |-> "Hidalgo 12 ESQ. Juárez"],
      [SECCION |-> "0003", CASILLA |-> "B1", TIPO |-> "B", LOCALIDAD |-> "",
       DOMICILIO |-> "LOCALIDAD EL SAUZ, 36970, ABASOLO, GUANAJUATO"],
      [SECCION |-> "0003", CASILLA |-> "C1", TIPO |-> "C", LOCALIDAD |-> "",
       DOMICILIO |-> "Hidalgo 12, 36970, ABASOLO, GUANAJUATO"] }

\* the rows of secciones_municipio.csv
MuniCsvRows ==
    << [SECCION |-> " 0001 ", MUNICIPIO |-> "León "],
       [SECCION |-> "0003", MUNICIPIO |-> " "] >>

\* what geocode(q) can return: a location (longitude, latitude), or None
Locations == { [longitude |-> -101, latitude |-> 21] }

\* geocode(q) raised an Exception
Raised == [raised |-> TRUE]

\* every way a call geocode(q) can end
Outcomes == Locations \cup {NoneObj, Raised}

\* the rows whose SECCION and MUNICIPIO are both non-empty after strip
Kept(rows) ==
    {n \in 1..Len(rows) : strip(rows[n].SECCION) # "" /\ strip(rows[n].MUNICIPIO) # ""}

\* mapping[sec] = mun for the kept rows in order: the last row of a section wins
MapaDe(rows, kept) ==
    [sec \in {strip(rows[n].SECCION) : n \in kept} |->
        strip(rows[CHOOSE n \in kept :
                     /\ strip(rows[n].SECCION) = sec
                     /\ \A m \in kept : strip(rows[m].SECCION) = sec => m <= n].MUNICIPIO)]

cargar_mapa_seccion_municipio(rows) == MapaDe(rows, Kept(rows))

mapa_muni == cargar_mapa_seccion_municipio(MuniCsvRows)

\* mapa_muni.get(seccion, "")
MunicipioDe(seccion) == IF seccion \in DOMAIN mapa_muni THEN mapa_muni[seccion] ELSE ""

\* the feature of a casilla, given dom_limpio
FeatureCon(cas, dom_limpio) ==
    [geometry |-> NoneObj,
     properties |->
        [SECCION |-> strip(cas.SECCION),
         CASILLA_ID |-> cas.CASILLA,
         TIPO |-> cas.TIPO,
         DOMICILIO |-> cas.DOMICILIO,
         DOMICILIO_LIMPIO |-> dom_limpio,
         DOMICILIO_CORTO |-> domicilio_corto(dom_limpio)]]

\* the feature preparar's main() writes for a casilla: geometry null, and the
\* address fields v1 reads
preparar_feature(cas) == FeatureCon(cas, limpiar_domicilio(cas.DOMICILIO))

\* {"type": "Point", "coordinates": [lon, lat]}
Point(loc) == [type |-> "Point", coordinates |-> <<loc.longitude, loc.latitude>>]

\* d[key] = value on a dict d
Put(d, key, value) == (key :> value) @@ d

-----------------------------------------------------------------------------
(* geocodificar_casillas.py (v1): main() *)

\* a faulty V1Resolved, which C3 must reject: OK without the Point
V1ResolvedNoGeometry(feat, q, loc) ==
    [geometry |-> feat.geometry,
     properties |-> Put(Put(feat.properties, "GEOCOD_STATUS",
                            IF loc # NoneObj THEN "OK" ELSE "SIN_MATCH"),
                        "GEOCOD_QUERY", q)]

\* the feature after `if loc: ... else: ...`
V1Resolved(feat, q, loc) ==
    IF loc # NoneObj
    THEN [geometry |-> Point(loc),
          properties |-> Put(Put(feat.properties, "GEOCOD_STATUS", "OK"),
                             "GEOCOD_QUERY", q)]
    ELSE [geometry |-> NoneObj,
          properties |-> Put(Put(feat.properties, "GEOCOD_STATUS", "SIN_MATCH"),
                             "GEOCOD_QUERY", q)]

\* the feature after the `if not q:` branch
V1SinQuery(feat) ==
    [geometry |-> NoneObj,
     properties |-> Put(feat.properties, "GEOCOD_STATUS", "SIN_DIRECCION")]

\* what `try: loc = geocode(q) / except Exception: loc = None` leaves in loc
V1Loc(out) == IF out = Raised THEN NoneObj ELSE out

\* the features of casillas_geo_sin_coords.geojson, by casilla
Prepared == [cas \in RawRecords |-> preparar_feature(cas)]

\* q = build_query(props) for the props of every input feature (the query is a
\* function of props: it is evaluated once per distinct props)
V1Query == [props \in {Prepared[cas].properties : cas \in RawRecords} |-> build_query(props)]

\* the record has no query: SIN_DIRECCION, and on to the next record
V1SinDireccion ==
    /\ variant = "v1" /\ pc = "record" /\ i <= Len(features)
    /\ ~Truthy(V1Query[features[i].properties])
    /\ features' = [features EXCEPT ![i] = V1SinQuery(features[i])]
    /\ i' = i + 1
    /\ UNCHANGED <<variant, raw, pc, k, queries, local, cache, calls, fn, arg, res>>

\* q in cache: the stored outcome decides, geocode is not called
V1Cached ==
    /\ variant = "v1" /\ pc = "record" /\ i <= Len(features)
    /\ \E q \in {V1Query[features[i].properties]} :
           /\ Truthy(q)
           /\ q \in DOMAIN cache
           /\ features' = [features EXCEPT ![i] = V1Resolved(features[i], q, cache[q])]
    /\ i' = i + 1
    /\ UNCHANGED <<variant, raw, pc, k, queries, local, cache, calls, fn, arg, res>>

\* q not in cache: geocode(q) is called and its outcome stored
V1Geocode ==
    /\ variant = "v1" /\ pc = "record" /\ i <= Len(features)
    /\ \E q \in {V1Query[features[i].properties]}, out \in Outcomes :
           /\ Truthy(q)
           /\ q \notin DOMAIN cache
           /\ calls' = Append(calls, [rec |-> i, q |-> q, out |-> out])
           /\ cache' = Put(cache, q, V1Loc(out))
           /\ features' = [features EXCEPT ![i] = V1Resolved(features[i], q, V1Loc(out))]
    /\ i' = i + 1
    /\ UNCHANGED <<variant, raw, pc, k, queries, local, fn, arg, res>>

-----------------------------------------------------------------------------
(* geocodificar_casillas_gto_v2.py (v2): main() *)

\* the dict props, given the stripped fields of the row and dom_limpio
PropsCon(seccion, casilla, localidad, domicilio_original, dom_limpio) ==
    [SECCION |-> seccion,
     CASILLA_ID |-> casilla,
     LOCALIDAD |-> localidad,
     DOMICILIO |-> domicilio_original,
     DOMICILIO_LIMPIO |-> dom_limpio,
     DOMICILIO_CORTO |-> construir_domicilio_corto(dom_limpio, localidad)]

\* the dict props, given the stripped fields of the row
PropsDe(seccion, casilla, localidad, domicilio_original) ==
    PropsCon(seccion, casilla, localidad, domicilio_original,
             limpiar_frases_basura(domicilio_original))

\* the dict props built before the lookups: (row.get(..) or "").strip() of each field
V2Props(row) ==
    PropsDe(strip(row.SECCION), strip(row.CASILLA), strip(row.LOCALIDAD),
            strip(row.DOMICILIO))

\* armar_queries_geocod(dom_corto, localidad, municipio), municipio from mapa_muni
QueriesDe(props) ==
    armar_queries_geocod(props.DOMICILIO_CORTO, props.LOCALIDAD,
                         MunicipioDe(props.SECCION))

\* props and queries of every row (both are functions of the row: they are
\* evaluated once per distinct row)
V2Row == [row \in RawRecords |-> [props |-> V2Props(row), queries |-> QueriesDe(V2Props(row))]]

\* the loop locals before the first candidate
V2Locals == [geometry |-> NoneObj, geocod_status |-> "SIN_MATCH", geocod_query |-> ""]

\* a faulty V2After, which C5 must reject: the loop goes on after a match
V2AfterNoBreak(loc, q, out) ==
    IF out = Raised THEN [loc |-> loc, brk |-> FALSE]
    ELSE IF out # NoneObj
    THEN [loc |-> [geometry |-> Point(out), geocod_status |-> "OK", geocod_query |-> q],
          brk |-> FALSE]
    ELSE [loc |-> [loc EXCEPT !.geocod_query = q], brk |-> FALSE]

\* the locals after geocode(q) ended with `out`, and whether the loop breaks
V2After(loc, q, out) ==
    IF out = Raised THEN [loc |-> loc, brk |-> FALSE]
    ELSE IF out # NoneObj
    THEN [loc |-> [geometry |-> Point(out), geocod_status |-> "OK", geocod_query |-> q],
          brk |-> TRUE]
    ELSE [loc |-> [loc EXCEPT !.geocod_query = q], brk |-> FALSE]

\* the feature appended after the loop
V2Feature(row, loc) ==
    [geometry |-> loc.geometry,
     properties |-> Put(Put(V2Row[row].props, "GEOCOD_STATUS", loc.geocod_status),
                        "GEOCOD_QUERY", loc.geocod_query)]

\* the next row: its fields, props and queries are computed, the locals reset
V2Begin ==
    /\ variant = "v2" /\ pc = "record" /\ i <= Len(raw)
    /\ queries' = V2Row[raw[i]].queries
    /\ local' = V2Locals
    /\ k' = 1
    /\ pc' = "candidate"
    /\ UNCHANGED <<variant, raw, i, cache, features, calls, fn, arg, res>>

\* a faulty V2Try, which C9 must reject: an exception of geocode is not caught,
\* and the run stops where it is
V2TryUncaught ==
    /\ variant = "v2" /\ pc = "candidate" /\ k <= Len(queries)
    /\ IF queries[k] = ""
       THEN /\ k' = k + 1
            /\ UNCHANGED <<local, calls, pc>>
       ELSE \E out \in Outcomes :
              \E after \in {V2After(local, queries[k], out)} :
                  /\ calls' = Append(calls, [rec |-> i, q |-> queries[k], out |-> out])
                  /\ local' = after.loc
                  /\ k' = IF after.brk THEN Len(queries) + 1 ELSE k + 1
                  /\ pc' = IF out = Raised THEN "aborted" ELSE pc
    /\ UNCHANGED <<variant, raw, i, queries, cache, features, fn, arg, res>>

\* one turn of `for q in queries`: an empty q is skipped, otherwise geocode(q) is
\* called; a location ends the loop, None or an exception moves to the next q
V2Try ==
    /\ variant = "v2" /\ pc = "candidate" /\ k <= Len(queries)
    /\ IF queries[k] = ""
       THEN /\ k' = k + 1
            /\ UNCHANGED <<local, calls>>
       ELSE \E out \in Outcomes :
              \E after \in {V2After(local, queries[k], out)} :
                  /\ calls' = Append(calls, [rec |-> i, q |-> queries[k], out |-> out])
                  /\ local' = after.loc
                  /\ k' = IF after.brk THEN Len(queries) + 1 ELSE k + 1
    /\ UNCHANGED <<variant, raw, pc, i, queries, cache, features, fn, arg, res>>

\* after the loop: the feature of the row is appended
V2Emit ==
    /\ variant = "v2" /\ pc = "candidate" /\ k > Len(queries)
    /\ features' = Append(features, V2Feature(raw[i], local))
    /\ i' = i + 1
    /\ pc' = "record"
    /\ UNCHANGED <<variant, raw, k, queries, local, cache, calls, fn, arg, res>>

-----------------------------------------------------------------------------
(* Both scripts: the end of main(), and the runs *)

\* the loop over the records is over: the collection is written
Finish ==
    /\ variant \in {"v1", "v2"} /\ pc = "record" /\ i > Len(raw)
    /\ pc' = "done"
    /\ UNCHANGED <<variant, raw, i, k, queries, local, cache, features, calls, fn, arg, res>>

Inputs == UNION {[1..n -> RawRecords] : n \in 0..MaxRecords}

Init ==
    /\ variant \in {"v1", "v2"}
    /\ raw \in Inputs
    /\ pc = "record"
    /\ i = 1
    /\ k = 0
    /\ queries = <<>>
    /\ local = V2Locals
    /\ cache = <<>>
    /\ features = IF variant = "v1" THEN [n \in 1..Len(raw) |-> Prepared[raw[n]]]
                  ELSE <<>>
    /\ calls = <<>>
    /\ fn = "" /\ arg = "" /\ res = ""

Next ==
    \/ V1SinDireccion
    \/ V1Cached
    \/ V1Geocode
    \/ V2Begin
    \/ V2Try
    \/ V2Emit
    \/ Finish

Spec == Init /\ [][Next]_vars

\* main() is sequential code: while a step is possible, one is taken
FairSpec == Spec /\ WF_vars(Next)

-----------------------------------------------------------------------------
(* The functions on their own: an argument is drawn, the function is applied *)

\* the run variables while a function is checked on its own
NoRun ==
    /\ variant = "none" /\ raw = <<>> /\ pc = "done" /\ i = 1 /\ k = 0
    /\ queries = <<>> /\ local = V2Locals /\ cache = <<>> /\ features = <<>>
    /\ calls = <<>>

runVars == <<variant, raw, pc, i, k, queries, local, cache, features, calls>>

\* pieces of an address
Chunks ==
    { "Hidalgo 12", " esquina Juárez", " A 50 METROS", " frente  a la plaza",
      " S/N", ", ", " Esq. Peñón" }

RECURSIVE Concat(_)
Concat(parts) == IF parts = <<>> THEN "" ELSE Head(parts) \o Concat(Tail(parts))

\* the addresses assembled from at most MaxChunks pieces
Addresses == {Concat(parts) : parts \in UNION {[1..n -> Chunks] : n \in 0..MaxChunks}}

InitLimpiar ==
    /\ NoRun
    /\ fn = "" /\ res = ""
    /\ arg \in Addresses

\* res = limpiar_frases_basura(arg)
ApplyLimpiar ==
    /\ fn = ""
    /\ fn' = "limpiar_frases_basura"
    /\ res' = limpiar_frases_basura(arg)
    /\ UNCHANGED <<runVars, arg>>

NextLimpiar == ApplyLimpiar

SpecLimpiar == InitLimpiar /\ [][NextLimpiar]_vars

\* the arguments of the query builders: the short address, locality and
\* municipality v2 passes to armar_queries_geocod, and the full address of the
\* casilla from which preparar derives the props v1 passes to build_query
Cortos == {"", "HIDALGO 12", "HIDALGO 12, Centro", "Centro", "PEÑÓN  3", "León"}
Localidades == {"", "Centro", " centro ", "Peñon 3", "LEÓN"}
Municipios == {"", "León", " Leon "}
Domicilios ==
    { "", " ", "Hidalgo 12 COL. Centro",
      "Hidalgo 12, 36970, ABASOLO, GUANAJUATO",
      "LOCALIDAD EL SAUZ, 36970, ABASOLO, GUANAJUATO",
      "Esc. Primaria, Alto de Alcocer, 36970, Abasolo, Guanajuato, Mexico" }

InitQueries ==
    /\ NoRun
    /\ fn = "" /\ res = ""
    /\ arg \in [domicilio_corto : Cortos, localidad : Localidades,
                municipio : Municipios, domicilio : Domicilios]

\* res = armar_queries_geocod(domicilio_corto, localidad, municipio)
ApplyArmar ==
    /\ fn = ""
    /\ fn' = "armar_queries_geocod"
    /\ res' = armar_queries_geocod(arg.domicilio_corto, arg.localidad, arg.municipio)
    /\ UNCHANGED <<runVars, arg>>

\* the props preparar writes for a casilla whose address is `domicilio`
PropsDeDomicilio(domicilio) ==
    preparar_feature([SECCION |-> "", CASILLA |-> "", TIPO |-> "",
                      DOMICILIO |-> domicilio]).properties

\* res = build_query(props)
ApplyBuild ==
    /\ fn = ""
    /\ fn' = "build_query"
    /\ res' = build_query(PropsDeDomicilio(arg.domicilio))
    /\ UNCHANGED <<runVars, arg>>

NextQueries == ApplyArmar \/ ApplyBuild

SpecQueries == InitQueries /\ [][NextQueries]_vars

-----------------------------------------------------------------------------
(* Properties of the runs (Spec) *)

\* record n has been classified: v1 marks the feature in place before i moves on,
\* v2 appends the feature
Processed(n) == n \in DOMAIN features /\ (variant = "v2" \/ n < i)

StatusOf(n) == Get(features[n].properties, "GEOCOD_STATUS")
QueryOf(n) == Get(features[n].properties, "GEOCOD_QUERY")

\* the lookups made while record n was processed, in order
RecCalls(n) == SelectSeq(calls, LAMBDA c : c.rec = n)

\* the candidate queries of record n, in the order they are tried
Candidates(n) ==
    IF variant = "v1"
    THEN (IF Truthy(V1Query[Prepared[raw[n]].properties])
          THEN <<V1Query[Prepared[raw[n]].properties]>> ELSE <<>>)
    ELSE V2Row[raw[n]].queries

\* a lookup for record n gave a coordinate: one of its own calls, or in v1 the
\* call whose outcome the cache holds for its query
Yielded(n) ==
    \E c \in DOMAIN calls :
        /\ calls[c].out \in Locations
        /\ \/ calls[c].rec = n
           \/ variant = "v1" /\ <<calls[c].q>> = Candidates(n)

\* the address and the locality of record n are empty
NoAddress(n) == strip(raw[n].DOMICILIO) = "" /\ strip(raw[n].LOCALIDAD) = ""

\* C1: in one run, geocode is called at most once for any query string: no two
\* lookups of the log have the same query
C1_AtMostOnce ==
    \A a, b \in DOMAIN calls : a < b => calls[a].q # calls[b].q

\* C2: a record with no address and no locality is SIN_DIRECCION with null
\* geometry, and no lookup was made for it
C2_SinDireccion ==
    \A n \in DOMAIN features :
        Processed(n) /\ NoAddress(n) =>
            /\ StatusOf(n) = "SIN_DIRECCION"
            /\ features[n].geometry = NoneObj
            /\ \A c \in DOMAIN calls : calls[c].rec # n

\* C3: every classified feature has one of the three statuses, and its geometry
\* is a Point exactly when the status is OK and null otherwise; after the run
\* every feature is classified
C3_StatusGeometry ==
    /\ \A n \in DOMAIN features :
          Processed(n) =>
            /\ StatusOf(n) \in {"OK", "SIN_MATCH", "SIN_DIRECCION"}
            /\ (features[n].geometry # NoneObj) <=> (StatusOf(n) = "OK")
            /\ StatusOf(n) = "OK" =>
                  /\ features[n].geometry.type = "Point"
                  /\ features[n].geometry.coordinates \in
                        {<<l.longitude, l.latitude>> : l \in Locations}
    /\ pc = "done" => \A n \in 1..Len(raw) : Processed(n)

C3_Witness ==
    /\ pc = "done"
    /\ \E n \in DOMAIN features : StatusOf(n) = "OK"
    /\ \E n \in DOMAIN features : StatusOf(n) = "SIN_MATCH"
    /\ \E c \in DOMAIN calls : calls[c].out = Raised

\* C4: a record that has candidates none of which gave a coordinate is SIN_MATCH
\* with null geometry, and its GEOCOD_QUERY is the last candidate of its list
C4_LastAttempted ==
    \A n \in DOMAIN features :
        Processed(n) /\ Candidates(n) # <<>> /\ ~Yielded(n) =>
            /\ StatusOf(n) = "SIN_MATCH"
            /\ features[n].geometry = NoneObj
            /\ QueryOf(n) = Candidates(n)[Len(Candidates(n))]

\* v2, record n: its lookups are the candidates in list order, none follows a
\* lookup that gave a coordinate, and once the feature is appended it is OK with
\* the query and the coordinate of that lookup, or else every candidate was tried
C5_Record(n, cs, qs) ==
    /\ Len(cs) <= Len(qs)
    /\ \A j \in 1..Len(cs) : cs[j].q = qs[j]
    /\ \A j \in 1..(Len(cs) - 1) : cs[j].out \notin Locations
    /\ n \in DOMAIN features =>
          IF cs # <<>> /\ cs[Len(cs)].out \in Locations
          THEN /\ StatusOf(n) = "OK"
               /\ QueryOf(n) = cs[Len(cs)].q
               /\ features[n].geometry = Point(cs[Len(cs)].out)
          ELSE /\ StatusOf(n) # "OK"
               /\ Len(cs) = Len(qs)

\* v1, record n: its single candidate is OK exactly when the lookup of that
\* query gave a coordinate, with that query and coordinate
C5_Single(n) ==
    Candidates(n) # <<>> =>
        /\ (StatusOf(n) = "OK") <=> Yielded(n)
        /\ \A c \in DOMAIN calls :
              calls[c].out \in Locations /\ <<calls[c].q>> = Candidates(n) =>
                  /\ QueryOf(n) = calls[c].q
                  /\ features[n].geometry = Point(calls[c].out)

C5_Order ==
    IF variant = "v2"
    THEN \A n \in 1..Len(raw) : C5_Record(n, RecCalls(n), V2Row[raw[n]].queries)
    ELSE \A n \in 1..Len(raw) : Processed(n) => C5_Single(n)

\* a feature that is OK is never changed again
C5_Stable ==
    \A n \in DOMAIN features :
        Processed(n) /\ StatusOf(n) = "OK" =>
            n \in DOMAIN features' /\ features'[n] = features[n]

\* C5: candidates are looked up in list order up to the first that gives a
\* coordinate; the record is then OK with exactly that query and coordinate, and
\* an OK feature never changes
C5_FirstMatch == []C5_Order /\ [][C5_Stable]_vars

\* only the municipality-only candidate matched (the third of four)
C5_Witness ==
    /\ variant = "v2" /\ pc = "done"
    /\ \E n \in DOMAIN features :
          /\ Len(V2Row[raw[n]].queries) = 4
          /\ Len(RecCalls(n)) = 3
          /\ StatusOf(n) = "OK"
          /\ QueryOf(n) = "Leon, Guanajuato, Mexico"

\* the collection written: one feature per record, in input order, each with a status
C9_Output ==
    /\ Len(features) = Len(raw)
    /\ \A n \in 1..Len(raw) :
          /\ features[n].properties.SECCION = strip(raw[n].SECCION)
          /\ strip(features[n].properties.CASILLA_ID) = strip(raw[n].CASILLA)
          /\ strip(features[n].properties.DOMICILIO) = strip(raw[n].DOMICILIO)
          /\ StatusOf(n) \in {"OK", "SIN_MATCH", "SIN_DIRECCION"}

\* C9: whatever the lookups return or raise, main() eventually ends, and at the
\* end there is exactly one feature per record, in input order, each with a status
C9_Terminates == <>[](pc = "done" /\ C9_Output)

\* a run of two records in which a lookup raised for each of them
C9_Witness ==
    /\ pc = "done"
    /\ Len(raw) = MaxRecords
    /\ \A n \in 1..Len(raw) : \E c \in DOMAIN calls : calls[c].rec = n /\ calls[c].out = Raised

\* C10: every classified feature carries GEOCOD_STATUS and GEOCOD_QUERY besides
\* the original and derived address fields
C10_AllProperties ==
    \A n \in DOMAIN features :
        Processed(n) =>
            {"SECCION", "CASILLA_ID", "DOMICILIO", "DOMICILIO_LIMPIO", "DOMICILIO_CORTO",
             "GEOCOD_STATUS", "GEOCOD_QUERY"} \subseteq DOMAIN features[n].properties

-----------------------------------------------------------------------------
(* Properties of the query builders (SpecQueries) *)

\* the list before deduplication: the queries of the four tiers, normalised
Undeduplicated ==
    Normalizadas(QueriesRaw(arg.domicilio_corto, strip(arg.localidad), strip(arg.municipio)))

FirstPos(x, qs) == Min({j \in DOMAIN qs : qs[j] = x})

\* C6: the list armar_queries_geocod returns is not empty, has no two equal
\* elements, has the elements of the undeduplicated list in the order of their
\* first occurrences, and ends with "Guanajuato, Mexico"
C6_Deduplicated ==
    fn = "armar_queries_geocod" =>
        /\ res # <<>>
        /\ \A a, b \in DOMAIN res : a # b => res[a] # res[b]
        /\ {res[a] : a \in DOMAIN res} = {Undeduplicated[j] : j \in DOMAIN Undeduplicated}
        /\ \A a, b \in DOMAIN res :
              a < b => FirstPos(res[a], Undeduplicated) < FirstPos(res[b], Undeduplicated)
        /\ res[Len(res)] = "Guanajuato, Mexico"

\* a duplicate was removed
C6_Witness ==
    /\ fn = "armar_queries_geocod"
    /\ Len(res) < Len(Undeduplicated)
    /\ Len(res) > 1

\* the query of tier t (1 address, 2 locality, 3 municipality, 4 state) for the
\* short address dc, the locality loc and the municipality muni, or None when
\* the input does not allow it
TierQuery(t, dc, loc, muni) ==
    IF t = 1 /\ dc # ""
    THEN strip_accents_keep_enie(dc \o (IF muni # "" THEN ", " \o muni ELSE "")
                                    \o ", Guanajuato, Mexico")
    ELSE IF t = 2 /\ loc # ""
    THEN strip_accents_keep_enie(loc \o (IF muni # "" THEN ", " \o muni ELSE "")
                                     \o ", Guanajuato, Mexico")
    ELSE IF t = 3 /\ muni # ""
    THEN strip_accents_keep_enie(muni \o ", Guanajuato, Mexico")
    ELSE IF t = 4 THEN "Guanajuato, Mexico"
    ELSE None

\* the most specific tier that gives the query q, 0 when none does
TierOf(q, dc, loc, muni) == MinOr({t \in 1..4 : TierQuery(t, dc, loc, muni) = q}, 0)

\* the candidates are the queries of the tiers the input allows, most specific first
RankedBy(qs, dc, loc, muni) ==
    /\ \A a \in DOMAIN qs : TierOf(qs[a], dc, loc, muni) > 0
    /\ \A t \in 1..4 :
          TierQuery(t, dc, loc, muni) # None =>
              \E a \in DOMAIN qs : qs[a] = TierQuery(t, dc, loc, muni)
    /\ \A a, b \in DOMAIN qs :
          a < b => TierOf(qs[a], dc, loc, muni) < TierOf(qs[b], dc, loc, muni)

C7_V2Ranked ==
    fn = "armar_queries_geocod" =>
        RankedBy(res, arg.domicilio_corto, strip(arg.localidad), strip(arg.municipio))

\* the address text build_query falls back on: short, else cleaned, else full
V1Address(props) ==
    Or(props.DOMICILIO_CORTO, Or(props.DOMICILIO_LIMPIO, props.DOMICILIO))

\* C7 as stated: address before locality before municipality before state in
\* every variant; in v1, a record with a usable short or cleaned address is
\* queried by that address
C7_AddressFirst ==
    /\ C7_V2Ranked
    /\ fn = "build_query" =>
          \A props \in {PropsDeDomicilio(arg.domicilio)} :
              props.DOMICILIO_CORTO # "" \/ props.DOMICILIO_LIMPIO # "" =>
                  res = V1Address(props) \o ", Guanajuato, México"

\* the single query of build_query, from the municipality and the locality found
\* in the full address
V1Ranked(q, props, mpio, localidad) ==
    IF props.DOMICILIO_CORTO = "" /\ props.DOMICILIO_LIMPIO = "" /\ props.DOMICILIO = ""
    THEN q = None
    ELSE IF Truthy(mpio) /\ Truthy(localidad)
    THEN q = localidad \o ", " \o mpio \o ", Guanajuato, México"
    ELSE IF Truthy(mpio)
    THEN q = mpio \o ", Guanajuato, México"
    ELSE q = V1Address(props) \o ", Guanajuato, México"

\* C7, amended: armar_queries_geocod orders its candidates address, locality,
\* municipality, state; build_query gives one query, locality and municipality
\* when the address has both, else the municipality alone when it has one, and
\* the address text only when no municipality is found in it
C7_Ranking ==
    /\ C7_V2Ranked
    /\ fn = "build_query" =>
          \A props \in {PropsDeDomicilio(arg.domicilio)} :
              V1Ranked(res, props, extraer_cp_y_mpio(props.DOMICILIO).mpio,
                       extraer_localidad(props.DOMICILIO))

\* build_query passes over a usable short address for the municipality
C7_Witness ==
    /\ fn = "build_query"
    /\ Prefix(PropsDeDomicilio(arg.domicilio).DOMICILIO_CORTO, 10) = "HIDALGO 12"
    /\ res = "Abasolo, Guanajuato, México"

-----------------------------------------------------------------------------
(* Properties of limpiar_frases_basura (SpecLimpiar) *)

\* txt up to the earliest position at which a marker of `cortes` occurs
EarliestCut(txt) ==
    Prefix(txt, MinOr({find(txt, cortes[m]) : m \in DOMAIN cortes} \ {-1}, Len(txt)))

\* C8: limpiar_frases_basura cuts the upper-cased address at the earliest
\* position of any marker of `cortes`, so that no marker is left in the result;
\* the empty address gives the empty string
C8_EarliestMarker ==
    fn = "limpiar_frases_basura" =>
        /\ res = (IF arg = "" THEN "" ELSE Pulir(EarliestCut(upper(arg))))
        /\ \A m \in DOMAIN cortes : ~Contains(res, cortes[m])

=============================================================================
